---- MODULE Spec2Model ----
(***************************************************************************)
(* Model of the experiment entry point (src/main.py, main) of the LLM      *)
(* vulnerability tester, together with the collaborators it drives.        *)
(*                                                                         *)
(* main() is modelled statement by statement from src/main.py.  The        *)
(* collaborators it imports (ExperimentBuilder, ModelLoader, the dataset   *)
(* sampler, the attack strategies, AccuracyEvaluator, AttackSuccessRate,   *)
(* LatencyEvaluator, StorageManager) have no source under src/; they are   *)
(* modelled from sections 3, 4, 6 and 7 of the specification.              *)
(*                                                                         *)
(* A float is written [n, d] for the double nearest to n/d; the record     *)
(* with d = 0 stands for a local that has not been assigned yet.           *)
(* Texts are modelled by integer ids: text i is the i-th text of the       *)
(* dataset and -i is its adversarially rewritten form.                     *)
(***************************************************************************)
EXTENDS Integers, Sequences, FiniteSets, TLC

VARIABLES
    pc,               \* position of main()
    args,             \* argparse namespace (main.py:28)
    experiment,       \* the ExperimentBuilder instance (main.py:33)
    data,             \* run_experiment's local: its working example sequence
    results,          \* the ExperimentResult returned (main.py:34)
    adversarial_data, \* main.py:41
    original_labels,  \* main.py:44
    perturbed_labels, \* main.py:45
    accuracy_before,  \* main.py:47
    accuracy_after,   \* main.py:48
    asr,              \* main.py:49
    latency_before,   \* main.py:52
    latency_after,    \* main.py:53
    final_results,    \* main.py:55-66 (<<>> until built, then <<record>>)
    json_store,       \* what StorageManager.save_results_json was given
    csv_store,        \* what StorageManager.save_results_csv was given
    calls             \* trace of the calls main() and the builder made

vars == <<pc, args, experiment, data, results, adversarial_data,
          original_labels, perturbed_labels, accuracy_before, accuracy_after,
          asr, latency_before, latency_after, final_results, json_store,
          csv_store, calls>>

---------------------------------------------------------------------------
(* Bounds and input sets *)

\* Longest dataset sample the model draws.
MaxSamples == 4

\* argparse default of --num_samples (parsed, never read afterwards).
NumSamplesDefault == 50

Labels == {0, 1}

\* quantization = None
None == "None"

KnownModels == {"meta-llama/Llama-2-7b"}
ModelIds == KnownModels \cup {"no-such-model"}

KnownDatasets == {"imdb"}
DatasetIds == KnownDatasets \cup {"no-such-dataset"}

AttackKinds == {"prompt_injection", "adversarial", "gradient_based", "backdoor"}
\* The kinds a run is started with: one that rewrites the text, one that
\* does not, and one outside the registry.
AttackIds == {"prompt_injection", "adversarial", "unknown_attack"}

\* Attack kinds that hand back a rewritten text.
TextMutating == {"prompt_injection", "backdoor"}

SupportedQuantization == {None, "GPTQ"}
QuantizationIds == SupportedQuantization \cup {"no-such-scheme"}

---------------------------------------------------------------------------
(* Floats *)

(***************************************************************************)
(* A float held in a variable is written [n, d] (lowest terms, d > 0) and  *)
(* stands for the IEEE-754 double nearest to n/d: what Python's true       *)
(* division n / d and its float literals yield.  Arithmetic is done on the *)
(* doubles themselves, exactly: a double is a sign and a magnitude in      *)
(* fixed point, NumLimbs limbs of LimbBits bits, most significant first,   *)
(* the first IntLimbs of them the integer part.  This holds every double   *)
(* x with x = 0 or 2^-43 <= |x| < 2^23, and the sums and differences of    *)
(* two of them, exactly.                                                   *)
(***************************************************************************)

Abs(x) == IF x < 0 THEN 0 - x ELSE x

RECURSIVE GCD(_, _)
GCD(a, b) == IF b = 0 THEN a ELSE GCD(b, a % b)

\* The float nearest n/d (d > 0), in lowest terms.
Rat(n, d) ==
    LET g == GCD(Abs(n), d)
    IN  [n |-> n \div g, d |-> d \div g]

Zero == [n |-> 0, d |-> 1]
One == [n |-> 1, d |-> 1]

\* A local that has not been assigned yet.
Unset == [n |-> 0, d |-> 0]

\* The significand of a double.
MantissaBits == 53

LimbBits == 24
LimbBase == 2 ^ LimbBits
IntLimbs == 1
FracLimbs == 4
NumLimbs == IntLimbs + FracLimbs

\* The weight of limb i's lowest bit, as a power of two above the lowest
\* bit of the magnitude.
LimbExp(i) == (NumLimbs - i) * LimbBits

\* A magnitude given limb by limb, as a tuple.
Limbs(f) == SubSeq(f, 1, NumLimbs)

ZeroMag == Limbs([i \in 1..NumLimbs |-> 0])

RECURSIVE BitLength(_)
\* Number of bits of v >= 0.
BitLength(v) == IF v = 0 THEN 0 ELSE 1 + BitLength(v \div 2)

\* -1, 0, 1 as a < b, a = b, a > b.
CmpMag(a, b) ==
    LET D == {i \in 1..NumLimbs : a[i] # b[i]}
    IN  IF D = {} THEN 0
        ELSE LET i == CHOOSE i \in D : \A j \in D : i <= j
             IN  IF a[i] > b[i] THEN 1 ELSE 0 - 1

RECURSIVE AddFrom(_, _, _, _, _)
AddFrom(a, b, i, carry, acc) ==
    IF i = 0 THEN acc
    ELSE LET s == a[i] + b[i] + carry
         IN  AddFrom(a, b, i - 1, s \div LimbBase, <<s % LimbBase>> \o acc)

AddMag(a, b) == AddFrom(a, b, NumLimbs, 0, <<>>)

RECURSIVE SubFrom(_, _, _, _, _)
SubFrom(a, b, i, borrow, acc) ==
    IF i = 0 THEN acc
    ELSE LET s == a[i] - b[i] - borrow
         IN  IF s < 0
             THEN SubFrom(a, b, i - 1, 1, <<s + LimbBase>> \o acc)
             ELSE SubFrom(a, b, i - 1, 0, <<s>> \o acc)

\* a - b for a >= b
SubMag(a, b) == SubFrom(a, b, NumLimbs, 0, <<>>)

RECURSIVE MulFrom(_, _, _, _, _)
MulFrom(a, k, i, carry, acc) ==
    IF i = 0 THEN <<carry>> \o acc
    ELSE LET s == a[i] * k + carry
         IN  MulFrom(a, k, i - 1, s \div LimbBase, <<s % LimbBase>> \o acc)

\* a * k for a small k, in NumLimbs + 1 limbs.
MulSmall(a, k) == MulFrom(a, k, NumLimbs, 0, <<>>)

\* 2^e as a magnitude.
Pow2Mag(e) ==
    Limbs([i \in 1..NumLimbs |->
             IF LimbExp(i) <= e /\ e < LimbExp(i) + LimbBits
             THEN 2 ^ (e - LimbExp(i)) ELSE 0])

\* The bits of a below bit e.
LowBits(a, e) ==
    Limbs([i \in 1..NumLimbs |->
             IF LimbExp(i) + LimbBits <= e THEN a[i]
             ELSE IF LimbExp(i) >= e THEN 0
             ELSE a[i] % (2 ^ (e - LimbExp(i)))])

\* Bit e of a.
BitAt(a, e) ==
    LET i == NumLimbs - (e \div LimbBits)
    IN  (a[i] \div (2 ^ (e - LimbExp(i)))) % 2

\* Round a magnitude to MantissaBits significant bits, to nearest, ties to
\* even; sticky: a non-zero remainder lies below the magnitude's last bit.
RoundMag(a, sticky) ==
    IF a = ZeroMag THEN a
    ELSE LET j == CHOOSE j \in 1..NumLimbs :
                     a[j] # 0 /\ \A k \in 1..(j - 1) : a[k] = 0
             top == LimbExp(j) + BitLength(a[j]) - 1
             last == top - (MantissaBits - 1)
         IN  IF last <= 0 THEN a
             ELSE LET low == LowBits(a, last)
                      c == CmpMag(low, Pow2Mag(last - 1))
                      trunc == Limbs([i \in 1..NumLimbs |-> a[i] - low[i]])
                      up == \/ c > 0
                            \/ c = 0 /\ (sticky \/ BitAt(a, last) = 1)
                  IN  IF up THEN AddMag(trunc, Pow2Mag(last)) ELSE trunc

\* Half a limb: products of a remainder below 2^19 and HalfBase stay
\* within 32-bit integers.
HalfBase == 2 ^ (LimbBits \div 2)

RECURSIVE FracDigits(_, _, _, _)
\* The next k limbs of rem/d after the point, and the remainder left; each
\* limb is produced in two halves.
FracDigits(rem, d, k, acc) ==
    IF k = 0 THEN <<acc, rem>>
    ELSE LET t == rem * HalfBase
             u == (t % d) * HalfBase
         IN  FracDigits(u % d, d, k - 1,
                        Append(acc, (t \div d) * HalfBase + (u \div d)))

\* The double nearest to the rational x (x.d < 2^19, |x| < 2^23): the
\* quotient to NumLimbs limbs, then rounded.
Double(x) ==
    LET q == Abs(x.n) \div x.d
        f == FracDigits(Abs(x.n) % x.d, x.d, FracLimbs, <<>>)
        mag == <<q>> \o f[1]
    IN  [neg |-> x.n < 0, mag |-> RoundMag(mag, f[2] # 0)]

\* x - y on doubles, correctly rounded.
FloatSub(x, y) ==
    IF x.neg # y.neg
    THEN [neg |-> x.neg, mag |-> RoundMag(AddMag(x.mag, y.mag), FALSE)]
    ELSE LET c == CmpMag(x.mag, y.mag)
         IN  IF c = 0 THEN [neg |-> FALSE, mag |-> ZeroMag]
             ELSE IF c > 0
             THEN [neg |-> x.neg,
                   mag |-> RoundMag(SubMag(x.mag, y.mag), FALSE)]
             ELSE [neg |-> ~x.neg,
                   mag |-> RoundMag(SubMag(y.mag, x.mag), FALSE)]

\* x + y on doubles, correctly rounded.
FloatAdd(x, y) == FloatSub(x, [neg |-> ~y.neg, mag |-> y.mag])

\* Python's round(x, 2) of a double: the hundredth nearest to the double's
\* exact value, an exact tie going to the even hundredth.
Round2(x) ==
    LET p == MulSmall(x.mag, 100)
        q == p[1] * LimbBase + p[2]
        f == p[IntLimbs + 2]
        rest == \E i \in (IntLimbs + 3)..(NumLimbs + 1) : p[i] # 0
        up == \/ 2 * f > LimbBase
              \/ 2 * f = LimbBase /\ (rest \/ q % 2 = 1)
        h == IF up THEN q + 1 ELSE q
    IN  Rat(IF x.neg THEN 0 - h ELSE h, 100)

\* round(a - b, 2) of two floats held in variables.
PyRoundSub(a, b) == Round2(FloatSub(Double(a), Double(b)))

\* What LatencyEvaluator.measure_latency may report, in ms.
Latencies == {Rat(10, 1), Rat(401, 40)}

\* The floats a run over at most MaxSamples examples can hold.
RunFloats == {Rat(k, n) : k \in 0..MaxSamples, n \in 1..MaxSamples}
                \cup Latencies

\* PyRoundSub over RunFloats, worked out once (@@ yields the table as an
\* explicit function).
RoundSubTable ==
    [p \in RunFloats \X RunFloats |-> PyRoundSub(p[1], p[2])] @@ <<>>

\* round(a - b, 2): looked up where tabulated, computed otherwise.
RoundSub(a, b) ==
    IF <<a, b>> \in DOMAIN RoundSubTable
    THEN RoundSubTable[<<a, b>>]
    ELSE PyRoundSub(a, b)


---------------------------------------------------------------------------
(* Collaborators *)

Call(fn, a) == [fn |-> fn, args |-> a]

NoHandle == [kind |-> "none", id |-> None, quantization |-> None]

\* ModelLoader.load(model_id, quantization) -> (model, tokenizer)
LoadOk(model_id, quantization) ==
    model_id \in KnownModels /\ quantization \in SupportedQuantization

ModelHandle(model_id, quantization) ==
    [kind |-> "model", id |-> model_id, quantization |-> quantization]

TokenizerHandle(model_id, quantization) ==
    [kind |-> "tokenizer", id |-> model_id, quantization |-> quantization]

\* AccuracyEvaluator.calculate_accuracy: positional matches over length,
\* 0.0 for zero-length input.  Equal lengths are a precondition.
Matches(R, P) == Cardinality({i \in 1..Len(R) : R[i] = P[i]})

calculate_accuracy(R, P) ==
    IF Len(R) = 0 THEN Zero ELSE Rat(Matches(R, P), Len(R))

\* AttackSuccessRate.calculate_asr: fraction of positions that changed,
\* 0.0 for zero-length input.
calculate_asr(R, P) ==
    IF Len(R) = 0 THEN Zero ELSE Rat(Len(R) - Matches(R, P), Len(R))

\* The MetricError precondition of both: sequences of equal length.
MetricError(R, P) == Len(R) # Len(P)

---------------------------------------------------------------------------
(* The attack stage, per example *)

\* The text an attack of the given kind hands back for text t.
Rewrite(kind, t) == IF kind \in TextMutating THEN 0 - t ELSE t

\* One attacked example: text and label carried over; perturbed_label
\* attached only when the attack computed one.
Attacked(kind, e, labelled, pl, i) ==
    IF i \in labelled
    THEN [text |-> Rewrite(kind, e.text), label |-> e.label,
          perturbed_label |-> pl[i]]
    ELSE [text |-> Rewrite(kind, e.text), label |-> e.label]

RECURSIVE ApplyStrategy(_, _, _, _, _, _)
\* The examples of s[1..k] whose index is in kept, in order, attacked.
ApplyStrategy(kind, s, k, kept, labelled, pl) ==
    IF k = 0 THEN <<>>
    ELSE LET rest == ApplyStrategy(kind, s, k - 1, kept, labelled, pl)
         IN  IF k \in kept
             THEN Append(rest, Attacked(kind, s[k], labelled, pl, k))
             ELSE rest

---------------------------------------------------------------------------
Init ==
    /\ pc = "start"
    /\ args = [model |-> None, dataset |-> None, attack |-> None,
               quantization |-> None, num_samples |-> NumSamplesDefault]
    /\ experiment = [state |-> "NONE", model_name |-> None,
                     dataset_name |-> None, attack_type |-> None,
                     quantization |-> None,
                     model |-> NoHandle, tokenizer |-> NoHandle]
    /\ data = <<>>
    /\ results = [status |-> "none"]
    /\ adversarial_data = <<>>
    /\ original_labels = <<>>
    /\ perturbed_labels = <<>>
    /\ accuracy_before = Unset
    /\ accuracy_after = Unset
    /\ asr = Unset
    /\ latency_before = Unset
    /\ latency_after = Unset
    /\ final_results = <<>>
    /\ json_store = <<>>
    /\ csv_store = <<>>
    /\ calls = <<>>

---------------------------------------------------------------------------
(* main(), src/main.py *)

Log(c) == calls' = Append(calls, c)

\* main.py:17-30: logger set up, arguments parsed, the run announced.
\* parse_args exits with status 2 when a required argument is missing or
\* --num_samples is no integer.
ParseArgs ==
    /\ pc = "start"
    /\ \E valid \in BOOLEAN :
         IF valid
         THEN /\ \E m \in ModelIds, d \in DatasetIds, a \in AttackIds,
                    q \in QuantizationIds :
                   /\ args' = [model |-> m, dataset |-> d, attack |-> a,
                               quantization |-> q,
                               num_samples |-> NumSamplesDefault]
                   /\ calls' = calls \o
                         << Call("Logger.setup_logger", <<>>),
                            Call("logging.info",
                                 <<"Running experiment", a, m,
                                   IF q = None THEN "No Quantization"
                                   ELSE q>>) >>
              /\ pc' = "construct"
         ELSE /\ Log(Call("Logger.setup_logger", <<>>))
              /\ pc' = "usage_exit"
              /\ UNCHANGED args
    /\ UNCHANGED <<experiment, data, results, adversarial_data,
                   original_labels, perturbed_labels, accuracy_before,
                   accuracy_after, asr, latency_before, latency_after,
                   final_results, json_store, csv_store>>

\* main.py:33: ExperimentBuilder(args.model, args.dataset, args.attack,
\* args.quantization)
BuilderArgs == <<args.model, args.dataset, args.attack, args.quantization>>

Construct ==
    /\ pc = "construct"
    /\ experiment' = [state |-> "INIT",
                      model_name |-> BuilderArgs[1],
                      dataset_name |-> BuilderArgs[2],
                      attack_type |-> BuilderArgs[3],
                      quantization |-> BuilderArgs[4],
                      model |-> NoHandle, tokenizer |-> NoHandle]
    /\ Log(Call("ExperimentBuilder", BuilderArgs))
    /\ pc' = "run_experiment"
    /\ UNCHANGED <<args, data, results, adversarial_data, original_labels,
                   perturbed_labels, accuracy_before, accuracy_after, asr,
                   latency_before, latency_after, final_results, json_store,
                   csv_store>>

---------------------------------------------------------------------------
(* ExperimentBuilder.run_experiment, called at main.py:34 *)

mainUnchanged == UNCHANGED <<args, adversarial_data, original_labels,
                             perturbed_labels, accuracy_before,
                             accuracy_after, asr, latency_before,
                             latency_after, final_results, json_store,
                             csv_store>>

\* A stage failed: the error is caught at the builder boundary and handed
\* back as a result value.
Fail(reason) ==
    /\ experiment' = [experiment EXCEPT !.state = "FAILURE"]
    /\ results' = [status |-> "failure", failure_reason |-> reason]
    /\ data' = <<>>
    /\ pc' = "check_status"

\* Variant of LoadModel: a failed load is swallowed and the run goes on
\* without a model.
LoadModel_SwallowsError ==
    /\ pc = "run_experiment"
    /\ experiment.state = "INIT"
    /\ calls' = calls \o
          << Call("run_experiment", <<>>),
             Call("ModelLoader.load",
                  <<experiment.model_name, experiment.quantization>>) >>
    /\ IF LoadOk(experiment.model_name, experiment.quantization)
       THEN experiment' =
                 [experiment EXCEPT
                    !.state = "MODEL_LOADED",
                    !.model = ModelHandle(experiment.model_name,
                                          experiment.quantization),
                    !.tokenizer = TokenizerHandle(experiment.model_name,
                                                  experiment.quantization)]
       ELSE experiment' = [experiment EXCEPT !.state = "MODEL_LOADED"]
    /\ UNCHANGED <<pc, data, results>>
    /\ mainUnchanged

\* Entry of run_experiment and stage 1: ModelLoader.load(model_id,
\* quantization).
LoadModel ==
    /\ pc = "run_experiment"
    /\ experiment.state = "INIT"
    /\ calls' = calls \o
          << Call("run_experiment", <<>>),
             Call("ModelLoader.load",
                  <<experiment.model_name, experiment.quantization>>) >>
    /\ IF LoadOk(experiment.model_name, experiment.quantization)
       THEN /\ experiment' =
                 [experiment EXCEPT
                    !.state = "MODEL_LOADED",
                    !.model = ModelHandle(experiment.model_name,
                                          experiment.quantization),
                    !.tokenizer = TokenizerHandle(experiment.model_name,
                                                  experiment.quantization)]
            /\ UNCHANGED <<pc, data, results>>
       ELSE Fail("LoadError")
    /\ mainUnchanged

\* Stage 2: DatasetSampler.sample(dataset_id, count).  The count is the
\* builder's own: main() does not hand args.num_samples on.
SampleDataset ==
    /\ pc = "run_experiment"
    /\ experiment.state = "MODEL_LOADED"
    /\ \E n \in 0..MaxSamples :
         /\ Log(Call("DatasetSampler.sample", <<experiment.dataset_name, n>>))
         /\ IF experiment.dataset_name \in KnownDatasets
            THEN /\ \E lab \in [1..n -> Labels] :
                      data' = [i \in 1..n |-> [text |-> i, label |-> lab[i]]]
                 /\ experiment' = [experiment EXCEPT !.state = "DATA_SAMPLED"]
                 /\ UNCHANGED <<pc, results>>
            ELSE Fail("DataError")
    /\ mainUnchanged

\* Stages 3 and 4: resolve attack_kind, apply the strategy to every example.
\* kept: the examples the attack could process; labelled: those it attached
\* a perturbed_label to.
ApplyAttack ==
    /\ pc = "run_experiment"
    /\ experiment.state = "DATA_SAMPLED"
    /\ IF experiment.attack_type \notin AttackKinds
       THEN /\ Fail("AttackError: unknown attack kind")
            /\ UNCHANGED calls
       ELSE /\ Log(Call("AttackStrategy.apply", <<experiment.attack_type>>))
            /\ \E kept \in SUBSET (1..Len(data)) :
                 \E labelled \in SUBSET kept :
                   \E pl \in [labelled -> Labels] :
                     IF data # <<>> /\ kept = {}
                     THEN Fail("AttackError: no example could be processed")
                     ELSE /\ data' = ApplyStrategy(experiment.attack_type,
                                                   data, Len(data), kept,
                                                   labelled, pl)
                          /\ experiment' =
                               [experiment EXCEPT !.state = "ATTACKED"]
                          /\ UNCHANGED <<pc, results>>
    /\ mainUnchanged

\* Variant of ReturnSuccess: success reported straight after sampling.
ReturnSuccess_SkipsAttack ==
    /\ pc = "run_experiment"
    /\ experiment.state = "DATA_SAMPLED"
    /\ experiment' = [experiment EXCEPT !.state = "SUCCESS"]
    /\ results' = [status |-> "success", adversarial_data |-> data]
    /\ data' = <<>>
    /\ pc' = "check_status"
    /\ UNCHANGED calls
    /\ mainUnchanged

\* Stage 5: return status="success" with the assembled sequence.
ReturnSuccess ==
    /\ pc = "run_experiment"
    /\ experiment.state = "ATTACKED"
    /\ experiment' = [experiment EXCEPT !.state = "SUCCESS"]
    /\ results' = [status |-> "success", adversarial_data |-> data]
    /\ data' = <<>>
    /\ pc' = "check_status"
    /\ UNCHANGED calls
    /\ mainUnchanged

---------------------------------------------------------------------------
(* main(), continued *)

\* Variant of StatusFailed: the status compared against the wrong literal.
StatusFailed_WrongLiteral(r) == r.status = "error"

\* main.py:36
StatusFailed(r) == r.status # "success"

\* main.py:36-38
CheckStatus ==
    /\ pc = "check_status"
    /\ IF StatusFailed(results)
       THEN /\ Log(Call("logging.error", <<"Experiment failed. Exiting.">>))
            /\ pc' = "exit"
       ELSE /\ pc' = "extract"
            /\ UNCHANGED calls
    /\ UNCHANGED <<args, experiment, data, results, adversarial_data,
                   original_labels, perturbed_labels, accuracy_before,
                   accuracy_after, asr, latency_before, latency_after,
                   final_results, json_store, csv_store>>

\* main.py:44: [d["label"] for d in adversarial_data]
OriginalLabels(adv) == [i \in 1..Len(adv) |-> adv[i].label]

\* Variant of GetPerturbedLabel: d.get("perturbed_label") without the
\* default, which yields None (here 0 - 1, equal to no label).
GetPerturbedLabel_NoDefault(d) ==
    IF "perturbed_label" \in DOMAIN d THEN d.perturbed_label ELSE 0 - 1

\* main.py:45: d.get("perturbed_label", d["label"])
GetPerturbedLabel(d) ==
    IF "perturbed_label" \in DOMAIN d THEN d.perturbed_label ELSE d.label

\* Variant of PerturbedLabels: only the examples that carry a
\* perturbed_label contribute.
PerturbedLabels_OnlyPresent(adv) ==
    LET has == SelectSeq(adv, LAMBDA d : "perturbed_label" \in DOMAIN d)
    IN  [i \in 1..Len(has) |-> has[i].perturbed_label]

\* main.py:45: [d.get("perturbed_label", d["label"]) for d in adversarial_data]
PerturbedLabels(adv) == [i \in 1..Len(adv) |-> GetPerturbedLabel(adv[i])]

\* main.py:41-45.  results["adversarial_data"] raises KeyError when the key
\* is absent.
Extract ==
    /\ pc = "extract"
    /\ Log(Call("results[]", <<"adversarial_data">>))
    /\ IF "adversarial_data" \in DOMAIN results
       THEN /\ adversarial_data' = results.adversarial_data
            /\ original_labels' = OriginalLabels(results.adversarial_data)
            /\ perturbed_labels' = PerturbedLabels(results.adversarial_data)
            /\ pc' = "accuracy_before"
       ELSE /\ pc' = "crashed"
            /\ UNCHANGED <<adversarial_data, original_labels,
                           perturbed_labels>>
    /\ UNCHANGED <<args, experiment, data, results, accuracy_before,
                   accuracy_after, asr, latency_before, latency_after,
                   final_results, json_store, csv_store>>

\* Variant of AccuracyBeforeArgs: the baseline measured against the
\* perturbed labels.
AccuracyBeforeArgs_Perturbed == <<original_labels, perturbed_labels>>

\* main.py:47: the arguments of the first calculate_accuracy call
AccuracyBeforeArgs == <<original_labels, original_labels>>

\* Variant of AccuracyAfterArgs: the original labels compared with
\* themselves again.
AccuracyAfterArgs_Self == <<original_labels, original_labels>>

\* main.py:48
AccuracyAfterArgs == <<original_labels, perturbed_labels>>

\* main.py:49
AsrArgs == <<original_labels, perturbed_labels>>

\* main.py:47
AccuracyBefore ==
    /\ pc = "accuracy_before"
    /\ Log(Call("calculate_accuracy", AccuracyBeforeArgs))
    /\ IF MetricError(AccuracyBeforeArgs[1], AccuracyBeforeArgs[2])
       THEN pc' = "crashed" /\ UNCHANGED accuracy_before
       ELSE /\ accuracy_before' = calculate_accuracy(AccuracyBeforeArgs[1],
                                                     AccuracyBeforeArgs[2])
            /\ pc' = "accuracy_after"
    /\ UNCHANGED <<args, experiment, data, results, adversarial_data,
                   original_labels, perturbed_labels, accuracy_after, asr,
                   latency_before, latency_after, final_results, json_store,
                   csv_store>>

\* main.py:48
AccuracyAfter ==
    /\ pc = "accuracy_after"
    /\ Log(Call("calculate_accuracy", AccuracyAfterArgs))
    /\ IF MetricError(AccuracyAfterArgs[1], AccuracyAfterArgs[2])
       THEN pc' = "crashed" /\ UNCHANGED accuracy_after
       ELSE /\ accuracy_after' = calculate_accuracy(AccuracyAfterArgs[1],
                                                    AccuracyAfterArgs[2])
            /\ pc' = "asr"
    /\ UNCHANGED <<args, experiment, data, results, adversarial_data,
                   original_labels, perturbed_labels, accuracy_before, asr,
                   latency_before, latency_after, final_results, json_store,
                   csv_store>>

\* main.py:49
Asr ==
    /\ pc = "asr"
    /\ Log(Call("calculate_asr", AsrArgs))
    /\ IF MetricError(AsrArgs[1], AsrArgs[2])
       THEN pc' = "crashed" /\ UNCHANGED asr
       ELSE /\ asr' = calculate_asr(AsrArgs[1], AsrArgs[2])
            /\ pc' = "latency_before"
    /\ UNCHANGED <<args, experiment, data, results, adversarial_data,
                   original_labels, perturbed_labels, accuracy_before,
                   accuracy_after, latency_before, latency_after,
                   final_results, json_store, csv_store>>

\* main.py:52-53: [d["text"] for d in adversarial_data]
Texts(adv) == [i \in 1..Len(adv) |-> adv[i].text]

\* main.py:52: the arguments of the first measure_latency call
LatencyBeforeArgs ==
    <<experiment.model, Texts(adversarial_data), experiment.tokenizer>>

\* Variant of LatencyAfterArgs: model and tokenizer swapped.
LatencyAfterArgs_Swapped ==
    <<experiment.tokenizer, Texts(adversarial_data), experiment.model>>

\* main.py:53: the arguments of the second measure_latency call
LatencyAfterArgs ==
    <<experiment.model, Texts(adversarial_data), experiment.tokenizer>>

\* main.py:52.  measure_latency reports some elapsed time and leaves the
\* model untouched.
LatencyBefore ==
    /\ pc = "latency_before"
    /\ Log(Call("measure_latency", LatencyBeforeArgs))
    /\ \E ms \in Latencies : latency_before' = ms
    /\ pc' = "latency_after"
    /\ UNCHANGED <<args, experiment, data, results, adversarial_data,
                   original_labels, perturbed_labels, accuracy_before,
                   accuracy_after, asr, latency_after, final_results,
                   json_store, csv_store>>

\* Variant of LatencyAfter: the second measurement is not taken and the
\* first is reused.
LatencyAfter_Skipped ==
    /\ pc = "latency_after"
    /\ latency_after' = latency_before
    /\ pc' = "record"
    /\ UNCHANGED <<args, experiment, data, results, adversarial_data,
                   original_labels, perturbed_labels, accuracy_before,
                   accuracy_after, asr, latency_before, final_results,
                   json_store, csv_store, calls>>

\* main.py:53
LatencyAfter ==
    /\ pc = "latency_after"
    /\ Log(Call("measure_latency", LatencyAfterArgs))
    /\ \E ms \in Latencies : latency_after' = ms
    /\ pc' = "record"
    /\ UNCHANGED <<args, experiment, data, results, adversarial_data,
                   original_labels, perturbed_labels, accuracy_before,
                   accuracy_after, asr, latency_before, final_results,
                   json_store, csv_store>>

\* Variant of FinalResults: accuracy_drop taken from a fixed baseline of 1.0
\* instead of accuracy_before.
FinalResults_FixedBaseline ==
    [model |-> args.model,
     quantization |-> args.quantization,
     attack |-> args.attack,
     accuracy_before |-> accuracy_before,
     accuracy_after |-> accuracy_after,
     accuracy_drop |-> RoundSub(One, accuracy_after),
     attack_success_rate |-> asr,
     latency_before_ms |-> latency_before,
     latency_after_ms |-> latency_after,
     latency_increase_ms |-> RoundSub(latency_after, latency_before)]

\* main.py:55-66
FinalResults ==
    [model |-> args.model,
     quantization |-> args.quantization,
     attack |-> args.attack,
     accuracy_before |-> accuracy_before,
     accuracy_after |-> accuracy_after,
     accuracy_drop |-> RoundSub(accuracy_before, accuracy_after),
     attack_success_rate |-> asr,
     latency_before_ms |-> latency_before,
     latency_after_ms |-> latency_after,
     latency_increase_ms |-> RoundSub(latency_after, latency_before)]

\* main.py:55-68
BuildRecord ==
    /\ pc = "record"
    /\ LET rec == FinalResults
       IN  /\ final_results' = <<rec>>
           /\ Log(Call("logging.info", <<"Experiment Results", rec>>))
    /\ pc' = "save_json"
    /\ UNCHANGED <<args, experiment, data, results, adversarial_data,
                   original_labels, perturbed_labels, accuracy_before,
                   accuracy_after, asr, latency_before, latency_after,
                   json_store, csv_store>>

\* main.py:69: StorageManager.save_results_json(final_results)
SaveJson ==
    /\ pc = "save_json"
    /\ json_store' = Append(json_store, final_results[1])
    /\ Log(Call("save_results_json", <<final_results[1]>>))
    /\ pc' = "save_csv"
    /\ UNCHANGED <<args, experiment, data, results, adversarial_data,
                   original_labels, perturbed_labels, accuracy_before,
                   accuracy_after, asr, latency_before, latency_after,
                   final_results, csv_store>>

\* main.py:70: StorageManager.save_results_csv([final_results])
SaveCsv ==
    /\ pc = "save_csv"
    /\ csv_store' = Append(csv_store, <<final_results[1]>>)
    /\ Log(Call("save_results_csv", <<final_results>>))
    /\ pc' = "complete"
    /\ UNCHANGED <<args, experiment, data, results, adversarial_data,
                   original_labels, perturbed_labels, accuracy_before,
                   accuracy_after, asr, latency_before, latency_after,
                   final_results, json_store>>

\* main.py:72
Complete ==
    /\ pc = "complete"
    /\ Log(Call("logging.info", <<"Experiment completed successfully!">>))
    /\ pc' = "exit"
    /\ UNCHANGED <<args, experiment, data, results, adversarial_data,
                   original_labels, perturbed_labels, accuracy_before,
                   accuracy_after, asr, latency_before, latency_after,
                   final_results, json_store, csv_store>>

Next ==
    \/ ParseArgs
    \/ Construct
    \/ LoadModel
    \/ SampleDataset
    \/ ApplyAttack
    \/ ReturnSuccess
    \/ CheckStatus
    \/ Extract
    \/ AccuracyBefore
    \/ AccuracyAfter
    \/ Asr
    \/ LatencyBefore
    \/ LatencyAfter
    \/ BuildRecord
    \/ SaveJson
    \/ SaveCsv
    \/ Complete

Spec == Init /\ [][Next]_vars
---------------------------------------------------------------------------
(* Properties *)

\* The calls made so far to the functions in fns, in order.
CallsTo(fns) == SelectSeq(calls, LAMBDA c : c.fn \in fns)

Called(fn) == \E i \in 1..Len(calls) : calls[i].fn = fn

\* Everything main() does after a successful status check.
Downstream == {"results[]", "calculate_accuracy", "calculate_asr",
               "measure_latency", "save_results_json", "save_results_csv"}

\* C1: while the result's status is not "success", main() has not read
\* adversarial_data, has called none of calculate_accuracy, calculate_asr,
\* measure_latency, save_results_json, save_results_csv, nothing has been
\* persisted, and once it has returned its last act was the error log.
C1_FailureSkipsMetricsAndPersistence ==
    results.status # "success" =>
        /\ pc \in {"start", "usage_exit", "construct", "run_experiment",
                   "check_status", "exit"}
        /\ CallsTo(Downstream) = <<>>
        /\ adversarial_data = <<>>
        /\ final_results = <<>>
        /\ json_store = <<>>
        /\ csv_store = <<>>
        /\ pc = "exit" =>
             calls[Len(calls)] =
                 Call("logging.error", <<"Experiment failed. Exiting.">>)

\* A failed run that main() has returned from.
C1_Witness == pc = "exit" /\ results.status = "failure"

\* The transitions of the builder's state machine.
BuilderEdges ==
    { <<"NONE", "INIT">>,
      <<"INIT", "MODEL_LOADED">>, <<"MODEL_LOADED", "DATA_SAMPLED">>,
      <<"DATA_SAMPLED", "ATTACKED">>, <<"ATTACKED", "SUCCESS">>,
      <<"ATTACKED", "FAILURE">>,
      <<"INIT", "FAILURE">>, <<"MODEL_LOADED", "FAILURE">>,
      <<"DATA_SAMPLED", "FAILURE">> }

\* C2: every change of the builder's state follows INIT -> MODEL_LOADED ->
\* DATA_SAMPLED -> ATTACKED -> {SUCCESS | FAILURE} or enters FAILURE from
\* one of the first three states; no transition leaves FAILURE (or
\* SUCCESS), and SUCCESS is entered only from ATTACKED.
C2_BuilderStateMachine ==
    [][ /\ experiment'.state # experiment.state =>
             <<experiment.state, experiment'.state>> \in BuilderEdges
        /\ experiment.state = "FAILURE" => experiment'.state = "FAILURE"
        /\ (experiment'.state = "SUCCESS" /\ experiment.state # "SUCCESS") =>
             experiment.state = "ATTACKED" ]_vars

\* FAILURE entered from DATA_SAMPLED (the attack stage failed).
C2_Witness ==
    /\ experiment.state = "FAILURE"
    /\ Called("DatasetSampler.sample")
    /\ results.failure_reason = "AttackError: unknown attack kind"

\* FAILURE entered from INIT and from MODEL_LOADED: both reachable as well.
C2_FailureFromInit ==
    experiment.state = "FAILURE" /\ results.failure_reason = "LoadError"

C2_FailureFromModelLoaded ==
    experiment.state = "FAILURE" /\ results.failure_reason = "DataError"

C2_SuccessReached == experiment.state = "SUCCESS"

\* C3: once ModelLoader.load has been called with a model or quantization
\* it cannot resolve, the run has returned status="failure" as a value
\* (main() is at its status check or has exited, never crashed) and neither
\* the dataset sampler nor the attack stage has been called.
C3_LoadFailureShortCircuits ==
    (/\ Called("ModelLoader.load")
     /\ ~LoadOk(experiment.model_name, experiment.quantization)) =>
        /\ results.status = "failure"
        /\ results.failure_reason = "LoadError"
        /\ experiment.state = "FAILURE"
        /\ pc \in {"check_status", "exit"}
        /\ CallsTo({"DatasetSampler.sample", "AttackStrategy.apply"}) = <<>>

C3_Witness ==
    /\ pc = "exit"
    /\ Called("ModelLoader.load")
    /\ ~LoadOk(experiment.model_name, experiment.quantization)

\* C4 as stated: once computed, accuracy_before equals 1.0.
C4_AccuracyBeforeAlwaysOne ==
    accuracy_before # Unset => accuracy_before = One

\* C4, amended: accuracy_before is the result of calculate_accuracy called
\* with the original labels as both arguments; it equals 1.0 when
\* adversarial_data is non-empty and 0.0 when it is empty.
C4_AccuracyBeforeBaseline ==
    accuracy_before # Unset =>
        LET R == [i \in 1..Len(results.adversarial_data) |->
                      results.adversarial_data[i].label]
            c == CallsTo({"calculate_accuracy"})[1]
        IN  /\ c.args = <<R, R>>
            /\ accuracy_before =
                 IF results.adversarial_data = <<>> THEN Zero ELSE One
            /\ final_results # <<>> =>
                 final_results[1].accuracy_before = accuracy_before

\* A finished run over several examples, one of them flipped.
C4_Witness ==
    /\ pc = "exit"
    /\ Len(adversarial_data) >= 2
    /\ original_labels # perturbed_labels
    /\ final_results[1].accuracy_before = One

\* The sampler was asked for, and returned, zero examples.
SampledEmpty ==
    /\ experiment.state \in {"DATA_SAMPLED", "ATTACKED", "SUCCESS", "FAILURE"}
    /\ \E i \in 1..Len(calls) :
         /\ calls[i].fn = "DatasetSampler.sample"
         /\ calls[i].args[2] = 0
         /\ calls[i].args[1] \in KnownDatasets

\* C5: when the dataset sample is empty (and the attack kind is a
\* recognised one), the builder's result is status="success" with empty
\* adversarial_data, main() does not fault, and the record it builds has
\* accuracy_before, accuracy_after, attack_success_rate and accuracy_drop
\* all 0.0.
C5_EmptySampleYieldsZeros ==
    (SampledEmpty /\ experiment.attack_type \in AttackKinds) =>
        /\ experiment.state # "FAILURE"
        /\ pc # "crashed"
        /\ pc # "run_experiment" =>
             results = [status |-> "success", adversarial_data |-> <<>>]
        /\ pc \in {"save_json", "save_csv", "complete", "exit"} =>
             /\ final_results # <<>>
             /\ final_results[1].accuracy_before = Zero
             /\ final_results[1].accuracy_after = Zero
             /\ final_results[1].attack_success_rate = Zero
             /\ final_results[1].accuracy_drop = Zero

C5_Witness ==
    /\ SampledEmpty
    /\ pc = "exit"
    /\ json_store # <<>>
    /\ json_store[1].accuracy_drop = Zero
\* Every example of the returned adversarial_data either carries no
\* perturbed_label or carries one equal to its label.
NoOpAttack ==
    /\ results.status = "success"
    /\ \A i \in 1..Len(results.adversarial_data) :
         LET d == results.adversarial_data[i]
         IN  "perturbed_label" \in DOMAIN d => d.perturbed_label = d.label

\* C6: after a no-op attack the perturbed label main() uses for each
\* example is the example's own label, and the record has
\* attack_success_rate = 0.0 and accuracy_drop = 0.0.
C6_NoOpAttackYieldsZeroImpact ==
    NoOpAttack =>
        /\ pc \notin {"check_status", "extract", "crashed"} =>
             \A i \in 1..Len(results.adversarial_data) :
                 perturbed_labels[i] = results.adversarial_data[i].label
        /\ asr # Unset => asr = Zero
        /\ final_results # <<>> =>
             /\ final_results[1].attack_success_rate = Zero
             /\ final_results[1].accuracy_drop = Zero

\* A finished no-op run with one example lacking perturbed_label and one
\* carrying its own label.
C6_Witness ==
    /\ NoOpAttack
    /\ pc = "exit"
    /\ \E i, j \in 1..Len(adversarial_data) :
         /\ "perturbed_label" \notin DOMAIN adversarial_data[i]
         /\ "perturbed_label" \in DOMAIN adversarial_data[j]
    /\ json_store[1].attack_success_rate = Zero

\* a + b == 1.0 in float arithmetic.
PySumIsOne(a, b) == FloatAdd(Double(a), Double(b)) = Double(One)

\* PySumIsOne over RunFloats, worked out once.
SumIsOneTable ==
    [p \in RunFloats \X RunFloats |-> PySumIsOne(p[1], p[2])] @@ <<>>

SumIsOne(a, b) ==
    IF <<a, b>> \in DOMAIN SumIsOneTable
    THEN SumIsOneTable[<<a, b>>]
    ELSE PySumIsOne(a, b)

\* C7: for non-empty adversarial_data with k of its n examples flipped,
\* the record has accuracy_after = 1 - k/n and attack_success_rate = k/n,
\* so the two add up to exactly 1.0 as floats; R = [0,1,1,0], P = [0,1,0,0] gives 0.75, 0.25
\* and accuracy_drop 0.25.
C7_AccuracyComplementsAsr ==
    (final_results # <<>> /\ results.adversarial_data # <<>>) =>
        LET adv == results.adversarial_data
            n == Len(adv)
            flipped == {i \in 1..n :
                          /\ "perturbed_label" \in DOMAIN adv[i]
                          /\ adv[i].perturbed_label # adv[i].label}
            k == Cardinality(flipped)
            rec == final_results[1]
        IN  /\ rec.accuracy_after = Rat(n - k, n)
            /\ rec.attack_success_rate = Rat(k, n)
            /\ SumIsOne(rec.accuracy_after, rec.attack_success_rate)
            /\ (original_labels = <<0, 1, 1, 0>>
                  /\ perturbed_labels = <<0, 1, 0, 0>>) =>
                 /\ rec.accuracy_before = One
                 /\ rec.accuracy_after = Rat(3, 4)
                 /\ rec.attack_success_rate = Rat(1, 4)
                 /\ rec.accuracy_drop = Rat(1, 4)

\* The scenario R = [0,1,1,0], P = [0,1,0,0], persisted.
C7_Witness ==
    /\ pc = "exit"
    /\ original_labels = <<0, 1, 1, 0>>
    /\ perturbed_labels = <<0, 1, 0, 0>>
    /\ json_store[1].accuracy_after = Rat(3, 4)

\* The stages of a run, as calls.
StageFns == {"run_experiment", "calculate_accuracy", "calculate_asr",
             "measure_latency", "save_results_json", "save_results_csv"}

StageOrder == <<"run_experiment", "calculate_accuracy", "calculate_accuracy",
                "calculate_asr", "measure_latency", "measure_latency",
                "save_results_json", "save_results_csv">>

IsSet(x) == x # Unset

\* C8: in a successful run the stage calls made so far are a prefix of
\* run_experiment, calculate_accuracy (twice), calculate_asr,
\* measure_latency (twice), save_results_json, save_results_csv, none
\* repeated; at exit all of them have been made; at most one record is
\* built, each store receives it at most once, the JSON store before the
\* CSV store, and what they receive is that record with every metric
\* field computed.
C8_StagesInOrderOnce ==
    results.status = "success" =>
        LET st == CallsTo(StageFns)
        IN  /\ Len(st) <= Len(StageOrder)
            /\ \A i \in 1..Len(st) : st[i].fn = StageOrder[i]
            /\ pc = "exit" => Len(st) = Len(StageOrder)
            /\ Len(final_results) <= 1
            /\ Len(json_store) <= 1
            /\ Len(csv_store) <= 1
            /\ csv_store # <<>> => json_store # <<>>
            /\ json_store # <<>> =>
                 /\ json_store[1] = final_results[1]
                 /\ Len(st) >= 7
                 /\ IsSet(json_store[1].accuracy_before)
                 /\ IsSet(json_store[1].accuracy_after)
                 /\ IsSet(json_store[1].attack_success_rate)
                 /\ IsSet(json_store[1].latency_before_ms)
                 /\ IsSet(json_store[1].latency_after_ms)
                 /\ json_store[1].accuracy_before = accuracy_before
                 /\ json_store[1].accuracy_after = accuracy_after
                 /\ json_store[1].attack_success_rate = asr
                 /\ json_store[1].latency_before_ms = latency_before
                 /\ json_store[1].latency_after_ms = latency_after
            /\ csv_store # <<>> => csv_store[1] = <<json_store[1]>>

C8_Witness ==
    /\ pc = "exit"
    /\ results.status = "success"
    /\ Len(csv_store) = 1
    /\ Len(adversarial_data) >= 2
    /\ latency_before # latency_after

\* main()'s positions between run_experiment returning and the end.
MetricsStage == {"check_status", "extract", "accuracy_before",
                 "accuracy_after", "asr", "latency_before", "latency_after",
                 "record", "save_json", "save_csv", "complete"}

\* Every measure_latency call made so far was given the model and tokenizer
\* the builder loaded for this run and the texts of adversarial_data in
\* order, and the two calls of a run were given the same arguments.
LatencyCallsAgree ==
    LET lat == CallsTo({"measure_latency"})
        texts == [i \in 1..Len(results.adversarial_data) |->
                      results.adversarial_data[i].text]
    IN  /\ \A i \in 1..Len(lat) :
             /\ lat[i].args[1] = ModelHandle(args.model, args.quantization)
             /\ lat[i].args[1] = experiment.model
             /\ lat[i].args[2] = texts
             /\ lat[i].args[3] = TokenizerHandle(args.model,
                                                 args.quantization)
             /\ lat[i].args[3] = experiment.tokenizer
        /\ Len(lat) = 2 => lat[1].args = lat[2].args

\* C9: both latency measurements are given the identical model and
\* tokenizer handle of the run's builder and the identical text batch (the
\* text of every example of adversarial_data, in order), and no step
\* between run_experiment returning and the end changes the builder's
\* handle or state, the result, or adversarial_data once it is read.
C9_LatencyInputsIdentical ==
    [][ /\ LatencyCallsAgree'
        /\ pc \in MetricsStage =>
             /\ experiment' = experiment
             /\ results' = results
             /\ pc # "extract" => adversarial_data' = adversarial_data ]_vars

C9_Witness ==
    /\ pc = "exit"
    /\ Len(CallsTo({"measure_latency"})) = 2
    /\ Len(adversarial_data) >= 2
    /\ experiment.model.kind = "model"
    /\ latency_before # latency_after

\* C10: after a successful status check, the label sequences main() holds
\* and every pair it has passed to calculate_accuracy or calculate_asr have
\* length len(adversarial_data), position i of each coming from example i,
\* and main() has not faulted on a length mismatch.
C10_LabelSequencesAligned ==
    (results.status = "success" /\ pc \notin {"check_status", "extract"}) =>
        LET adv == results.adversarial_data
            m == CallsTo({"calculate_accuracy", "calculate_asr"})
        IN  /\ pc # "crashed"
            /\ Len(original_labels) = Len(adv)
            /\ Len(perturbed_labels) = Len(adv)
            /\ \A i \in 1..Len(adv) :
                 /\ original_labels[i] = adv[i].label
                 /\ perturbed_labels[i] =
                      IF "perturbed_label" \in DOMAIN adv[i]
                      THEN adv[i].perturbed_label ELSE adv[i].label
            /\ \A j \in 1..Len(m) :
                 /\ Len(m[j].args[1]) = Len(adv)
                 /\ Len(m[j].args[2]) = Len(adv)
                 /\ ~MetricError(m[j].args[1], m[j].args[2])

\* All three metric calls made, over examples some of which lack a
\* perturbed_label.
C10_Witness ==
    /\ pc = "exit"
    /\ Len(CallsTo({"calculate_accuracy", "calculate_asr"})) = 3
    /\ Len(adversarial_data) >= 3
    /\ \E i, j \in 1..Len(adversarial_data) :
         /\ "perturbed_label" \notin DOMAIN adversarial_data[i]
         /\ "perturbed_label" \in DOMAIN adversarial_data[j]

====
